---- MODULE Spec2Model ----
(***************************************************************************)
(* Model of Project/github_repo_creator.py: one run of main(), which loads *)
(* a YAML configuration, creates a GitHub repository with one POST, clones *)
(* it, and optionally seeds it with a .gitignore file.                     *)
(*                                                                         *)
(* Strings that the program only passes around are TLA+ strings.  Strings  *)
(* that the program takes apart (the clone URL, the target directory) are  *)
(* sequences of one-character strings.                                     *)
(***************************************************************************)
EXTENDS Integers, Sequences, FiniteSets, TLC

VARIABLES
    pc,             \* position of main(): start, loaded, echoed, created, cloned, seeded, done, exited
    args,           \* parse_arguments(): [verbose, dir_given, directory]
    file,           \* what open()/yaml.safe_load() meet: "missing", "malformed", "ok"
    config,         \* the parsed document: [shape, map, items]
    out,            \* everything written to stdout/stderr, in order
    exit_status,    \* process exit status (0 until sys.exit(1) or an uncaught exception)
    trace,          \* file, network and git operations performed, in order
    post_response,  \* what requests.post met: [kind, status, body]
    get_response,   \* what requests.get met: [kind, status, body]
    git_outcome,    \* result of the add/commit/push block of add_gitignore
    clone_url,      \* return value of create_github_repo
    repo_dir,       \* return value of clone_repo
    gitignore,      \* content of <repo_dir>/.gitignore on disk
    commits,        \* commit messages made on the local branch
    failure         \* which step of main() failed, "none" if none did

vars == <<pc, args, file, config, out, exit_status, trace, post_response,
          get_response, git_outcome, clone_url, repo_dir, gitignore, commits, failure>>

----------------------------------------------------------------------------
(* Bounds and program constants *)

MaxPieces == 4

StatusUnprocessable == 422
StatusOK == 200

Token == "ghp_secret"
Mask == "**********"
CommitMessage == "Add .gitignore file"

RequiredFields == <<"github_token", "repo_name">>

\* keys of the configuration document, in the order the document lists them
KeyOrder == <<"github_token", "repo_name", "private", "description", "homepage",
              "has_wiki", "has_issues", "auto_init", "gitignore_type">>

Keys == {KeyOrder[i] : i \in DOMAIN KeyOrder}

GitignoreTypes == {"Python", "Node", "Java", "Go", "python"}

NoFile == "<no file>"
NoValue == "<none>"
NoUrl == <<>>

----------------------------------------------------------------------------
(* Character strings *)

DotGit == <<".", "g", "i", "t">>

Pieces == {<<"a">>, DotGit, <<"/">>, <<".">>, <<"g">>}

RECURSIVE Concats(_)
Concats(n) == IF n = 0 THEN {<<>>}
              ELSE LET shorter == Concats(n - 1)
                   IN shorter \cup {s \o p : s \in shorter, p \in Pieces}

UrlInputs == Concats(MaxPieces) \ {<<>>}

\* str.split('/')[-1]: what follows the last '/', the whole string if there is none
RECURSIVE LastSegment(_)
LastSegment(s) ==
    IF s = <<>> THEN <<>>
    ELSE IF s[Len(s)] = "/" THEN <<>>
    ELSE LastSegment(SubSeq(s, 1, Len(s) - 1)) \o <<s[Len(s)]>>

\* str.replace('.git', ''): every non-overlapping occurrence, scanning left to right
RECURSIVE ReplaceDotGit(_)
ReplaceDotGit(s) ==
    IF Len(s) < Len(DotGit) THEN s
    ELSE IF SubSeq(s, 1, Len(DotGit)) = DotGit
         THEN ReplaceDotGit(SubSeq(s, Len(DotGit) + 1, Len(s)))
         ELSE <<s[1]>> \o ReplaceDotGit(Tail(s))

\* clone_repo, line 117
DirectoryFromUrl(url) == ReplaceDotGit(LastSegment(url))

\* clone_repo, lines 115-117
TargetDirectory(url, a) ==
    IF ~a.dir_given \/ a.directory = <<>> THEN DirectoryFromUrl(url) ELSE a.directory

----------------------------------------------------------------------------
(* Built-in ignore-file templates, add_gitignore lines 150-230 *)

PythonGitignore == "\n# Python\n__pycache__/\n*.py[cod]\n*$py.class\n*.so\n.Python\nenv/\nbuild/\ndevelop-eggs/\ndist/\ndownloads/\neggs/\n.eggs/\nlib/\nlib64/\nparts/\nsdist/\nvar/\n*.egg-info/\n.installed.cfg\n*.egg\n.pytest_cache/\n.coverage\nhtmlcov/\n.tox/\n.venv/\nvenv/\nENV/\n"

NodeGitignore == "\n# Node.js\nnode_modules/\nnpm-debug.log\nyarn-debug.log\nyarn-error.log\npackage-lock.json\n.npm\n.node_repl_history\n.env\n.env.test\n.cache\n.next\n.nuxt\ndist/\n"

JavaGitignore == "\n# Java\n*.class\n*.log\n*.jar\n*.war\n*.ear\n*.zip\n*.tar.gz\n*.rar\nhs_err_pid*\n.mtj.tmp/\ntarget/\n.idea/\n*.iml\n.classpath\n.project\n.settings/\nbin/\n"

default_gitignore == "\n# IDE files\n.idea/\n.vscode/\n*.swp\n*.swo\n*~\n\n# OS files\n.DS_Store\nThumbs.db\n"

basic_gitignores ==
    [k \in {"Python", "Node", "Java"} |->
        IF k = "Python" THEN PythonGitignore
        ELSE IF k = "Node" THEN NodeGitignore
        ELSE JavaGitignore]

\* what the template source may answer with
RemoteBodies == {"# fetched template\n", ""}

----------------------------------------------------------------------------
(* Configuration documents *)

\* the value a document gives a key; private and gitignore_type vary
ValueOf(k, p, g) ==
    IF k = "github_token" THEN Token
    ELSE IF k = "repo_name" THEN "myrepo"
    ELSE IF k = "private" THEN p
    ELSE IF k = "gitignore_type" THEN g
    ELSE IF k = "description" THEN "a description"
    ELSE IF k = "homepage" THEN "https://example.org"
    ELSE "True"

EmptyMap == [k \in {} |-> NoValue]

\* a YAML mapping
DictConfigs ==
    {[shape |-> "dict", map |-> [k \in ks |-> ValueOf(k, p, g)], items |-> {}] :
        ks \in SUBSET Keys, p \in {"True", "False"}, g \in GitignoreTypes}

\* a YAML sequence or a YAML scalar string: items are the field names it
\* contains (as elements, as substrings)
OtherConfigs ==
    {[shape |-> sh, map |-> EmptyMap, items |-> it] :
        sh \in {"list", "str"}, it \in SUBSET {"github_token", "repo_name"}}
    \cup {[shape |-> sh, map |-> EmptyMap, items |-> {}] : sh \in {"none", "int"}}

Configs == DictConfigs \cup OtherConfigs

NoneConfig == [shape |-> "none", map |-> EmptyMap, items |-> {}]

\* Python's `field in config`: "yes", "no", or "TypeError"
FieldIn(field, cfg) ==
    IF cfg.shape = "dict" THEN (IF field \in DOMAIN cfg.map THEN "yes" ELSE "no")
    ELSE IF cfg.shape \in {"list", "str"} THEN (IF field \in cfg.items THEN "yes" ELSE "no")
    ELSE "TypeError"

\* load_config lines 50-55: the loop over required_fields
RECURSIVE Validate(_, _)
Validate(cfg, i) ==
    IF i > Len(RequiredFields) THEN [ctl |-> "return", exc |-> "", arg |-> ""]
    ELSE LET r == FieldIn(RequiredFields[i], cfg)
         IN  IF r = "TypeError" THEN [ctl |-> "raise", exc |-> "TypeError", arg |-> ""]
             ELSE IF r = "no"
                  THEN [ctl |-> "raise", exc |-> "ValueError", arg |-> RequiredFields[i]]
                  ELSE Validate(cfg, i + 1)

----------------------------------------------------------------------------
(* Output and termination *)

Msg(text, key, val, path) == [text |-> text, key |-> key, val |-> val, path |-> path]

Line(text) == Msg(text, "", "", <<>>)

\* an uncaught exception: the interpreter prints a traceback and exits with status 1
Traceback(exc, arg) == Msg("Traceback", exc, arg, <<>>)

\* no request made yet
Unsent == [kind |-> "unsent", status |-> 0, body |-> "", clone_url |-> NoUrl]

Init ==
    /\ pc = "start"
    /\ args \in [verbose : BOOLEAN, dir_given : {FALSE}, directory : {<<>>}]
             \cup [verbose : BOOLEAN, dir_given : {TRUE}, directory : {<<>>, <<"w">>}]
    /\ file \in {"missing", "malformed", "ok"}
    /\ config \in (IF file = "ok" THEN Configs ELSE {NoneConfig})
    /\ out = <<>>
    /\ exit_status = 0
    /\ trace = <<>>
    /\ post_response = Unsent
    /\ get_response = Unsent
    /\ git_outcome = "none"
    /\ clone_url = NoUrl
    /\ repo_dir = <<>>
    /\ gitignore = NoFile
    /\ commits = <<>>
    /\ failure = "none"

\* sys.exit(1) after printing msgs
SysExit(msgs, step) ==
    /\ out' = out \o msgs
    /\ exit_status' = 1
    /\ pc' = "exited"
    /\ failure' = step

\* an exception nobody catches, after printing msgs
Crash(msgs, exc, arg, step) == SysExit(msgs \o <<Traceback(exc, arg)>>, step)

----------------------------------------------------------------------------
(* load_config, lines 43-61 *)

load_config ==
    /\ pc = "start"
    /\ trace' = Append(trace, [op |-> "open"])
    /\ IF file = "missing"
       THEN SysExit(<<Line("Error: Config file not found.")>>, "load_config")
       ELSE IF file = "malformed"
       THEN SysExit(<<Line("Error parsing YAML config")>>, "load_config")
       ELSE LET v == Validate(config, 1)
            IN  IF v.ctl = "raise"
                THEN Crash(<<>>, v.exc, v.arg, "load_config")
                ELSE /\ pc' = "loaded"
                     /\ UNCHANGED <<out, exit_status, failure>>
    /\ UNCHANGED <<args, file, config, post_response, get_response, git_outcome,
                   clone_url, repo_dir, gitignore, commits>>

----------------------------------------------------------------------------
(* main, lines 258-264: the verbose echo *)

\* lines 261-264 without the mask
EchoValue_unmasked(key, value) == value

EchoValue(key, value) == IF key = "github_token" THEN Mask ELSE value

\* one line per item of the mapping, in document order
EchoLines(cfg) ==
    LET present == SelectSeq(KeyOrder, LAMBDA k : k \in DOMAIN cfg.map)
    IN  [i \in 1..Len(present) |->
            Msg("echo", present[i], EchoValue(present[i], cfg.map[present[i]]), <<>>)]

main_verbose ==
    /\ pc = "loaded"
    /\ IF ~args.verbose
       THEN /\ pc' = "echoed"
            /\ UNCHANGED <<out, exit_status, failure>>
       ELSE IF config.shape = "dict"
       THEN /\ out' = out \o <<Line("Configuration loaded:")>> \o EchoLines(config)
            /\ pc' = "echoed"
            /\ UNCHANGED <<exit_status, failure>>
       \* a list or a string has no .items()
       ELSE Crash(<<Line("Configuration loaded:")>>, "AttributeError", "", "main")
    /\ UNCHANGED <<args, file, config, trace, post_response, get_response, git_outcome,
                   clone_url, repo_dir, gitignore, commits>>

----------------------------------------------------------------------------
(* create_github_repo, lines 64-110 *)

PassThroughKeys == {"description", "homepage", "has_wiki", "has_issues", "auto_init"}

\* lines 77-92
RepoData(cfg) ==
    LET opt == PassThroughKeys \cap DOMAIN cfg.map
    IN  [k \in {"name", "private"} \cup opt |->
            IF k = "name" THEN cfg.map["repo_name"]
            ELSE IF k = "private"
                 THEN (IF "private" \in DOMAIN cfg.map THEN cfg.map["private"] ELSE "False")
                 ELSE cfg.map[k]]

\* lines 71-74; Authorization is "token " followed by the token, modelled by
\* the token it carries
Headers(cfg) == [Authorization |-> cfg.map["github_token"],
                 Accept |-> "application/vnd.github.v3+json"]

MainUrls == {<<"a", "/", "a">> \o DotGit,
             <<"a", "/", "a">> \o DotGit \o <<".", "a">> \o DotGit}

PostStatuses == {201, 401, 422, 500}

\* line 99 raising for 5xx only
RaisesForStatus_5xx_only(status) == 500 <= status /\ status < 600

\* Response.raise_for_status(), line 99: raises HTTPError for 4xx and 5xx
RaisesForStatus(status) == 400 <= status /\ status < 600

\* what requests.post may meet: no response at all (the call raises
\* ConnectionError), an error response, or a success response whose body is
\* the repository document, is not JSON, or is JSON without the URL keys
PostResponses ==
    {[kind |-> "none", status |-> 0, body |-> "", clone_url |-> NoUrl]}
    \cup {[kind |-> "response", status |-> s, body |-> "error body", clone_url |-> NoUrl] :
            s \in {t \in PostStatuses : RaisesForStatus(t)}}
    \cup {[kind |-> "response", status |-> s, body |-> "repo_json", clone_url |-> u] :
            s \in {t \in PostStatuses : ~RaisesForStatus(t)}, u \in MainUrls}
    \cup {[kind |-> "response", status |-> s, body |-> b, clone_url |-> NoUrl] :
            s \in {t \in PostStatuses : ~RaisesForStatus(t)},
            b \in {"not_json", "json_without_urls"}}

\* line 104 testing for 409 Conflict instead
IsConflict_409(status) == status = 409

\* line 104
IsConflict(status) == status = StatusUnprocessable

\* line 108: `e.response` in a condition is Response.__bool__, which is
\* Response.ok: false for the 4xx/5xx responses raise_for_status rejects
ResponseTruthy(eresp) == eresp.kind = "response" /\ ~RaisesForStatus(eresp.status)

\* lines 103-110: the handler of RequestException; resp is the local
\* `response` (unbound when requests.post itself raised), eresp is e.response
OnRequestException(resp, eresp, repo_name) ==
    IF resp.kind = "none"
    THEN [ctl |-> "raise", exc |-> "UnboundLocalError", msgs |-> <<>>, value |-> NoUrl]
    ELSE IF IsConflict(resp.status)
    THEN [ctl |-> "exit", exc |-> "",
          msgs |-> <<Msg("Error: Repository may already exist.", "", repo_name, <<>>)>>,
          value |-> NoUrl]
    ELSE [ctl |-> "exit", exc |-> "",
          msgs |-> <<Line("Error creating repository")>>
                   \o (IF ResponseTruthy(eresp)
                       THEN <<Msg("Response:", "", eresp.body, <<>>)>>
                       ELSE <<>>),
          value |-> NoUrl]

\* lines 97-110; json_error_caught: whether the installed requests raises its
\* own JSONDecodeError (a RequestException) or json's (a ValueError)
PostResult(resp, repo_name, json_error_caught) ==
    IF resp.kind = "none" THEN OnRequestException(resp, Unsent, repo_name)
    ELSE IF RaisesForStatus(resp.status) THEN OnRequestException(resp, resp, repo_name)
    ELSE IF resp.body = "not_json"
    THEN (IF json_error_caught
          THEN OnRequestException(resp, Unsent, repo_name)
          ELSE [ctl |-> "raise", exc |-> "ValueError", msgs |-> <<>>, value |-> NoUrl])
    ELSE IF resp.body = "json_without_urls"
    THEN [ctl |-> "raise", exc |-> "KeyError", msgs |-> <<>>, value |-> NoUrl]
    ELSE [ctl |-> "return", exc |-> "",
          msgs |-> <<Line("Repository created successfully")>>,
          value |-> resp.clone_url]

create_github_repo ==
    /\ pc = "echoed"
    /\ IF config.shape # "dict"
       \* config['github_token'] on a list or a string
       THEN /\ Crash(<<>>, "TypeError", "", "create_github_repo")
            /\ UNCHANGED <<trace, post_response, clone_url>>
       ELSE \E resp \in PostResponses, json_error_caught \in BOOLEAN :
            LET repo_name == config.map["repo_name"]
                creating == <<Msg("Creating GitHub repository", "", repo_name, <<>>)>>
                r == PostResult(resp, repo_name, json_error_caught)
            IN  /\ trace' = Append(trace, [op |-> "POST", headers |-> Headers(config),
                                           body |-> RepoData(config)])
                /\ post_response' = resp
                /\ IF r.ctl = "return"
                   THEN /\ out' = out \o creating \o r.msgs
                        /\ clone_url' = r.value
                        /\ pc' = "created"
                        /\ UNCHANGED <<exit_status, failure>>
                   ELSE /\ IF r.ctl = "exit"
                           THEN SysExit(creating \o r.msgs, "create_github_repo")
                           ELSE Crash(creating \o r.msgs, r.exc, "", "create_github_repo")
                        /\ UNCHANGED clone_url
    /\ UNCHANGED <<args, file, config, get_response, git_outcome, repo_dir,
                   gitignore, commits>>

----------------------------------------------------------------------------
(* clone_repo, lines 113-127 *)

clone_repo ==
    /\ pc = "created"
    /\ \E cloned \in BOOLEAN :
        LET directory == TargetDirectory(clone_url, args)
            cloning == <<Msg("Cloning repository to", "", "", directory)>>
        IN  /\ trace' = Append(trace, [op |-> "clone", url |-> clone_url,
                                       directory |-> directory])
            /\ IF cloned
               THEN /\ out' = out \o cloning
                               \o <<Msg("Repository cloned successfully to", "", "", directory)>>
                    /\ repo_dir' = directory
                    /\ pc' = "cloned"
                    /\ UNCHANGED <<exit_status, failure>>
               \* git.GitCommandError
               ELSE /\ SysExit(cloning \o <<Line("Error cloning repository")>>, "clone_repo")
                    /\ UNCHANGED repo_dir
    /\ UNCHANGED <<args, file, config, post_response, get_response, git_outcome,
                   clone_url, gitignore, commits>>

----------------------------------------------------------------------------
(* add_gitignore, lines 130-248 *)

GetStatuses == {200, 404, 500}

\* what requests.get may meet: no response (the call raises), or a response
GetResponses ==
    {[kind |-> "none", status |-> 0, body |-> "", clone_url |-> NoUrl]}
    \cup {[kind |-> "response", status |-> s, body |-> b, clone_url |-> NoUrl] :
            s \in GetStatuses, b \in RemoteBodies}

\* line 232 ignoring the built-in table
BasicLookup_default_only(ident) == default_gitignore

\* line 232: basic_gitignores.get(gitignore_type, default_gitignore)
BasicLookup(ident) ==
    IF ident \in DOMAIN basic_gitignores THEN basic_gitignores[ident] ELSE default_gitignore

\* lines 140-235: what is written to .gitignore
GitignoreContent(resp, ident) ==
    IF resp.status = StatusOK THEN resp.body ELSE BasicLookup(ident)

\* lines 144-147, 235
WriteMessages(resp, ident) ==
    IF resp.status = StatusOK
    THEN <<Msg("Added .gitignore file for", "", ident, <<>>)>>
    ELSE <<Msg("Could not find gitignore template for", "", ident, <<>>),
           Line("Creating a basic .gitignore file instead."),
           Line("Created a basic .gitignore file")>>

GitOutcomes == {"ok", "add_failed", "commit_failed", "push_failed"}

\* lines 239-245: the git commands run before the block ends or raises
GitOps(g) ==
    <<[op |-> "add"]>>
    \o (IF g = "add_failed" THEN <<>> ELSE <<[op |-> "commit", message |-> CommitMessage]>>)
    \o (IF g \in {"add_failed", "commit_failed"} THEN <<>> ELSE <<[op |-> "push"]>>)

\* line 247 without the except clause
CatchesGitError_never(exc) == FALSE

\* line 247: the except clause
CatchesGitError(exc) == exc = "GitCommandError"

add_gitignore(ident) ==
    \E resp \in GetResponses, g \in GitOutcomes :
        LET adding == <<Msg("Adding .gitignore file for", "", ident, <<>>)>>
            get == <<[op |-> "GET", ident |-> ident]>>
        IN  /\ get_response' = resp
            /\ IF resp.kind = "none"
               \* requests.get raises; nothing catches it
               THEN /\ trace' = trace \o get
                    /\ Crash(adding, "ConnectionError", "", "add_gitignore")
                    /\ UNCHANGED <<git_outcome, gitignore, commits>>
               ELSE LET content == GitignoreContent(resp, ident)
                        written == adding \o WriteMessages(resp, ident)
                    IN  /\ gitignore' = content
                        /\ trace' = trace \o get
                                    \o <<[op |-> "write", content |-> content]>> \o GitOps(g)
                        /\ git_outcome' = g
                        /\ commits' = IF g \in {"ok", "push_failed"}
                                      THEN Append(commits, CommitMessage) ELSE commits
                        /\ IF g = "ok"
                           THEN /\ out' = out \o written
                                            \o <<Line("Committed and pushed .gitignore file")>>
                                /\ pc' = "seeded"
                                /\ UNCHANGED <<exit_status, failure>>
                           ELSE IF CatchesGitError("GitCommandError")
                           THEN /\ out' = out \o written
                                            \o <<Line("Error committing .gitignore")>>
                                /\ pc' = "seeded"
                                /\ UNCHANGED <<exit_status, failure>>
                           ELSE Crash(written, "GitCommandError", "", "add_gitignore")

----------------------------------------------------------------------------
(* main, lines 272-277 *)

\* line 273 without the test
HasGitignoreType_always(cfg) == TRUE

\* line 273
HasGitignoreType(cfg) == "gitignore_type" \in DOMAIN cfg.map

main_gitignore ==
    /\ pc = "cloned"
    /\ IF HasGitignoreType(config)
       THEN IF "gitignore_type" \in DOMAIN config.map
            THEN add_gitignore(config.map["gitignore_type"])
            \* config['gitignore_type'] on a mapping without the key
            ELSE /\ Crash(<<>>, "KeyError", "", "main")
                 /\ UNCHANGED <<trace, get_response, git_outcome, gitignore, commits>>
       ELSE /\ pc' = "seeded"
            /\ UNCHANGED <<out, exit_status, failure, trace, get_response, git_outcome,
                           gitignore, commits>>
    /\ UNCHANGED <<args, file, config, post_response, clone_url, repo_dir>>

main_complete ==
    /\ pc = "seeded"
    /\ out' = out \o <<Line("Repository setup completed successfully!"),
                       Msg("You can now work with your repo at:", "", "", repo_dir)>>
    /\ pc' = "done"
    /\ UNCHANGED <<args, file, config, exit_status, trace, post_response, get_response,
                   git_outcome, clone_url, repo_dir, gitignore, commits, failure>>

----------------------------------------------------------------------------

Next ==
    \/ load_config
    \/ main_verbose
    \/ create_github_repo
    \/ clone_repo
    \/ main_gitignore
    \/ main_complete

Spec == Init /\ [][Next]_vars

----------------------------------------------------------------------------
(* clone_repo alone, on every clone URL of UrlInputs *)

InitClone ==
    /\ pc = "created"
    /\ args \in [verbose : {FALSE}, dir_given : {FALSE}, directory : {<<>>}]
             \cup [verbose : {FALSE}, dir_given : {TRUE}, directory : {<<>>, <<"w">>}]
    /\ file = "ok"
    /\ config = [shape |-> "dict",
                 map |-> [k \in {"github_token", "repo_name"} |-> ValueOf(k, "False", "Go")],
                 items |-> {}]
    /\ out = <<>>
    /\ exit_status = 0
    /\ trace = <<>>
    /\ post_response = Unsent
    /\ get_response = Unsent
    /\ git_outcome = "none"
    /\ clone_url \in UrlInputs
    /\ repo_dir = <<>>
    /\ gitignore = NoFile
    /\ commits = <<>>
    /\ failure = "none"

NextClone ==
    \/ clone_repo

SpecClone == InitClone /\ [][NextClone]_vars

----------------------------------------------------------------------------
(* Properties *)

Has(op) == \E i \in DOMAIN trace : trace[i].op = op

Count(op) == Cardinality({i \in DOMAIN trace : trace[i].op = op})

Printed(text) == \E i \in DOMAIN out : out[i].text = text

LastOut == out[Len(out)]

SeedOps == {"GET", "write", "add", "commit", "push"}

NetworkOps == {"POST", "clone", "GET", "push"}

LacksRequiredKey(cfg) == ~({"github_token", "repo_name"} \subseteq DOMAIN cfg.map)

Diagnostics == {"Traceback", "Error: Config file not found.", "Error parsing YAML config",
                "Error: Repository may already exist.", "Error creating repository",
                "Response:", "Error cloning repository"}

Completed == Printed("Repository setup completed successfully!")

\* C1: when the parsed configuration lacks repo_name or github_token (whatever
\* its shape, an empty document included), load_config fails with the
\* validation error, the run exits non-zero, and no network call was made.
C1_MissingKeyIsValidationError ==
    (file = "ok" /\ pc # "start" /\ LacksRequiredKey(config)) =>
        /\ pc = "exited"
        /\ exit_status = 1
        /\ failure = "load_config"
        /\ LastOut.text = "Traceback"
        /\ LastOut.key = "ValueError"
        /\ \A i \in DOMAIN trace : trace[i].op \notin NetworkOps

OptionalBodyKeys == {"private", "description", "homepage", "has_wiki", "has_issues",
                     "auto_init"}

\* C2: the body of the creation request holds the repository name plus exactly
\* the optional keys present in the configuration, each with its configured
\* value; no absent field is sent with a default.
C2_BodyHasOnlyConfiguredKeys ==
    \A i \in DOMAIN trace :
        trace[i].op = "POST" =>
            LET body == trace[i].body
            IN  /\ DOMAIN body = {"name"} \cup (OptionalBodyKeys \cap DOMAIN config.map)
                /\ body["name"] = config.map["repo_name"]
                /\ \A k \in DOMAIN body \ {"name"} : body[k] = config.map[k]

\* C3: when the creation POST is answered with 422, the run prints the "may
\* already exist" message, exits non-zero, has sent one POST only, and never
\* clones nor touches the ignore file.
C3_ConflictIsFatal ==
    (post_response.kind = "response" /\ post_response.status = StatusUnprocessable) =>
        /\ pc = "exited"
        /\ exit_status = 1
        /\ LastOut.text = "Error: Repository may already exist."
        /\ Count("POST") = 1
        /\ ~Has("clone")
        /\ \A i \in DOMAIN trace : trace[i].op \notin SeedOps
        /\ gitignore = NoFile

C3_Witness ==
    /\ post_response.kind = "response"
    /\ post_response.status = StatusUnprocessable
    /\ pc = "exited"
    /\ Has("POST")

\* the last segment with a trailing ".git" removed, nothing else
StripGitSuffix(seg) ==
    IF Len(seg) >= Len(DotGit) /\ SubSeq(seg, Len(seg) - Len(DotGit) + 1, Len(seg)) = DotGit
    THEN SubSeq(seg, 1, Len(seg) - Len(DotGit))
    ELSE seg

\* C4: with no explicit directory, clone_repo clones into the URL's final
\* '/'-separated segment with only the trailing ".git" removed; an explicit
\* non-empty directory is used unchanged.
C4_DirectoryIsSegmentWithoutSuffix ==
    \A i \in DOMAIN trace :
        trace[i].op = "clone" =>
            /\ ~args.dir_given =>
                  trace[i].directory = StripGitSuffix(LastSegment(trace[i].url))
            /\ (args.dir_given /\ args.directory # <<>>) =>
                  trace[i].directory = args.directory

\* C5: once add_gitignore has written the file, its content is the fetched
\* body if the fetch answered 200 OK; otherwise the built-in template of the
\* identifier if it is Python, Node or Java; otherwise the generic default
\* template.  Nothing else is written, and it is written once.
C5_GitignoreContent ==
    (gitignore # NoFile \/ Has("write")) =>
        LET ident == config.map["gitignore_type"]
            expected ==
                IF get_response.status = StatusOK THEN get_response.body
                ELSE IF ident = "Python" THEN PythonGitignore
                ELSE IF ident = "Node" THEN NodeGitignore
                ELSE IF ident = "Java" THEN JavaGitignore
                ELSE default_gitignore
        IN  /\ get_response.kind = "response"
            /\ gitignore = expected
            /\ Count("write") = 1
            /\ \A i \in DOMAIN trace : trace[i].op = "write" => trace[i].content = expected

C5_Witness ==
    /\ get_response.kind = "response"
    /\ get_response.status # StatusOK
    /\ config.shape = "dict"
    /\ "gitignore_type" \in DOMAIN config.map
    /\ config.map["gitignore_type"] = "Python"
    /\ gitignore = PythonGitignore

C7_FatalStepsStopTheRun ==
    /\ \A i \in DOMAIN trace :
        /\ trace[i].op = "open" => i = 1
        /\ trace[i].op = "POST" => i = 2
        /\ trace[i].op = "clone" => i = 3
    /\ (pc # "start" /\ (file # "ok" \/ LacksRequiredKey(config))) =>
        /\ Len(trace) = 1
        /\ ~Completed
        /\ pc \in {"loaded", "echoed", "exited"}
        /\ (config.shape \notin {"list", "str"}) => pc = "exited"
    /\ (post_response.kind = "none"
            \/ (post_response.kind = "response" /\ post_response.status >= 400)) =>
        /\ failure = "create_github_repo"
        /\ Len(trace) = 2
    /\ failure = "load_config" => Len(trace) = 1
    /\ failure = "create_github_repo" => Len(trace) <= 2
    /\ failure = "clone_repo" => Len(trace) = 3
    /\ failure \in {"load_config", "create_github_repo", "clone_repo"} =>
        /\ pc = "exited"
        /\ exit_status = 1
        /\ Len(out) > 0
        /\ LastOut.text \in Diagnostics
        /\ ~Completed
        /\ gitignore = NoFile
        /\ commits = <<>>
    /\ pc = "exited" => (exit_status = 1 /\ failure # "none")

C7_Witness ==
    /\ failure = "clone_repo"
    /\ pc = "exited"
    /\ Len(trace) = 3
    /\ LastOut.text = "Error cloning repository"

\* C8: an error response other than 422 to the creation POST is reported with
\* the body of that response; and when no response was received the failure is
\* reported as an error of its own, not by reading a response that is not there.
C8_ErrorCarriesBodyAndNoResponseIsReported ==
    /\ (post_response.kind = "response" /\ post_response.status >= 400
            /\ post_response.status # StatusUnprocessable) =>
        \E i \in DOMAIN out :
            out[i].text = "Response:" /\ out[i].val = post_response.body
    /\ post_response.kind = "none" =>
        /\ pc = "exited"
        /\ LastOut.text # "Traceback"

\* C9: without a gitignore_type key the ignore-file step is skipped: no
\* template GET, no .gitignore, no commit, no push, and after a successful
\* clone the run still reaches its completion message; and whatever the
\* configuration, that step's operations come only after a successful POST
\* and a successful clone.
C9_IgnoreStepOnlyWhenConfigured ==
    /\ (config.shape = "dict" /\ "gitignore_type" \notin DOMAIN config.map) =>
        /\ \A i \in DOMAIN trace : trace[i].op \notin SeedOps
        /\ gitignore = NoFile
        /\ commits = <<>>
        /\ get_response = Unsent
        /\ (Has("clone") /\ failure # "clone_repo") =>
            /\ pc \in {"cloned", "seeded", "done"}
            /\ exit_status = 0
            /\ pc = "done" => Completed
    /\ \A i \in DOMAIN trace :
        trace[i].op \in SeedOps =>
            /\ i > 3
            /\ trace[2].op = "POST"
            /\ trace[3].op = "clone"
            /\ post_response.kind = "response"
            /\ post_response.status < 400
            /\ clone_url # NoUrl
            /\ repo_dir = trace[3].directory
            /\ failure \notin {"load_config", "create_github_repo", "clone_repo"}

C9_Witness ==
    /\ config.shape = "dict"
    /\ "gitignore_type" \notin DOMAIN config.map
    /\ pc = "done"
    /\ Completed
    /\ Len(trace) = 3
    /\ trace[3].op = "clone"

\* C10: the token is never written to the output: the verbose echo shows every
\* key with its value except github_token, shown as the mask; no message holds
\* the token; and among the operations only the POST carries it, in its
\* Authorization header and not in its body.
C10_TokenNeverPrinted ==
    /\ \A i \in DOMAIN out : out[i].val # Token /\ out[i].key # Token /\ out[i].text # Token
    /\ (args.verbose /\ config.shape = "dict" /\ pc \notin {"start", "loaded"}
            /\ failure # "load_config") =>
        \A k \in DOMAIN config.map :
            \E i \in DOMAIN out :
                /\ out[i].text = "echo"
                /\ out[i].key = k
                /\ out[i].val = IF k = "github_token" THEN Mask ELSE config.map[k]
    /\ \A i \in DOMAIN trace :
        /\ trace[i].op = "POST" =>
            /\ trace[i].headers.Authorization = Token
            /\ \A k \in DOMAIN trace[i].body : trace[i].body[k] # Token
        /\ trace[i].op = "GET" => trace[i].ident # Token
        /\ trace[i].op = "write" => trace[i].content # Token
        /\ trace[i].op = "commit" => trace[i].message # Token

C10_Witness ==
    /\ args.verbose
    /\ pc = "done"
    /\ \E i \in DOMAIN out :
        out[i].text = "echo" /\ out[i].key = "github_token" /\ out[i].val = Mask
    /\ \E i \in DOMAIN out : out[i].text = "echo" /\ out[i].key = "repo_name"
    /\ Has("POST")

====
